---- MODULE Spec2Model ----
(***************************************************************************)
(* Neo N3 toolkit: the Provider (neo3_provider.py) and the Tool adapters   *)
(* built on it (block_tools.py, contract_tools.py, governance_tools.py,    *)
(* nep_tools.py, transaction_tools.py, utility_tools.py).                  *)
(*                                                                         *)
(* One invocation is in flight at a time (variable call).  A tool          *)
(* invocation constructs its own Provider through get_provider; the        *)
(* variable prov is a Provider constructed directly by the caller and      *)
(* used for direct method calls.  The RPC transport and the address codec  *)
(* are collaborators: what the program hands them is logged in the call    *)
(* (reqs, codec), what the transport answers is chosen by the environment. *)
(*                                                                         *)
(* Concurrent tool invocations (ConcSpec) run in the slots of running; the *)
(* Provider objects they construct live in heap, an object being its index.*)
(***************************************************************************)
EXTENDS Integers, Sequences, FiniteSets, TLC

VARIABLES call, prov, running, heap

vars == <<call, prov, running, heap>>

(***************************************************************************)
(* Bounds                                                                  *)
(***************************************************************************)
\* the most "0x" prefixes a sampled input string carries
MaxPfx == 1
\* width of a 160-bit script hash, counted in symbols of the sampled strings
UInt160Len == 2
\* width of a 256-bit hash: longer than a script hash
UInt256Len == UInt160Len + 1
\* the block count N of the chain the node serves: blocks 0 .. N-1
ChainLen == 2
\* the number of tool invocations that run concurrently
MaxInvocations == 2

(***************************************************************************)
(* Strings.  A string is "0x" repeated pfx times followed by a body: hex   *)
(* digits (kind "hex", the digit "1" is also a decimal digit, "a" is not), *)
(* a base58check address body (kind "addr", data is the script hash it     *)
(* encodes) or text that is neither (kind "junk").                         *)
(***************************************************************************)
Syms == {"1", "a"}

SeqsOf(S, n) == [1..n -> S]

HexLens == {1, UInt160Len, UInt256Len}

Strings ==
    [pfx : 0..MaxPfx, kind : {"hex"}, data : UNION {SeqsOf(Syms, n) : n \in HexLens}]
    \cup [pfx : 0..MaxPfx, kind : {"addr"}, data : SeqsOf(Syms, UInt160Len)]
    \cup [pfx : 0..MaxPfx, kind : {"junk"}, data : {<<>>}]

RECURSIVE Concat(_)
Concat(seq) == IF seq = <<>> THEN "" ELSE Head(seq) \o Concat(Tail(seq))

RECURSIVE Repeat(_, _)
Repeat(s, n) == IF n = 0 THEN "" ELSE s \o Repeat(s, n - 1)

\* the text of a string, as it appears inside a message
Render(s) ==
    Repeat("0x", s.pfx) \o
        CASE s.kind = "hex" -> Concat(s.data)
          [] s.kind = "addr" -> "N" \o Concat(s.data) \o "#"
          [] OTHER -> "invalid_address_123"

Reverse(seq) == [i \in 1..Len(seq) |-> seq[Len(seq) + 1 - i]]

\* str.startswith("0x") and the slice [2:] taken under it
StartsWith0x(s) == s.pfx > 0
DropPrefix(s) == [s EXCEPT !.pfx = @ - 1]

(***************************************************************************)
(* Values and exceptions                                                   *)
(***************************************************************************)
NoneV == [t |-> "None"]
IntV(n) == [t |-> "int", n |-> n]
BoolV(b) == [t |-> "bool", b |-> b]
StrV(s) == [t |-> "str", s |-> s]
TextV(x) == [t |-> "text", text |-> x]
UInt160V(d) == [t |-> "UInt160", data |-> d]
UInt256V(d) == [t |-> "UInt256", data |-> d]
ListV(items) == [t |-> "list", items |-> items]
ObjV(name) == [t |-> "object", name |-> name]
\* the empty mapping {}
EmptyDictV == [t |-> "dict"]

Exc(type, msg) == [type |-> type, msg |-> msg]

\* isinstance(e, Exception): asyncio.CancelledError derives from BaseException
\* only, so an 'except Exception' clause lets it pass
IsException(e) == e.type # "CancelledError"

Returned(v) == [kind |-> "return", val |-> v]
Raised(e) == [kind |-> "raise", exc |-> e]

(***************************************************************************)
(* The address / script-hash codec (neo3.core.types, neo3.wallet.utils)    *)
(***************************************************************************)
\* types.UInt160.from_string / types.UInt256.from_string: an optional "0x",
\* then exactly the width in hex digits, stored in reverse byte order
FromString(width, name, s) ==
    LET v == IF StartsWith0x(s) THEN DropPrefix(s) ELSE s
    IN  IF v.pfx = 0 /\ v.kind = "hex" /\ Len(v.data) = width
        THEN Returned([t |-> name, data |-> Reverse(v.data)])
        ELSE Raised(Exc("ValueError", "Invalid " \o name \o " Format"))

UInt160_from_string(s) == FromString(UInt160Len, "UInt160", s)
UInt256_from_string(s) == FromString(UInt256Len, "UInt256", s)

\* mutant of str(): the bytes are printed in storage order
UIntStr_storage_order(h) == [pfx |-> 1, kind |-> "hex", data |-> h.data]

\* str() of a UInt160 / UInt256: "0x" and the hex digits, bytes reversed back
UIntStr(h) == [pfx |-> 1, kind |-> "hex", data |-> Reverse(h.data)]

\* utils.is_valid_address
is_valid_address(s) == s.pfx = 0 /\ s.kind = "addr" /\ Len(s.data) = UInt160Len

\* utils.address_to_script_hash
address_to_script_hash(s) ==
    IF is_valid_address(s)
    THEN Returned(UInt160V(s.data))
    ELSE Raised(Exc("ValueError", "Invalid address"))

CodecCall(fn, arg) == [fn |-> fn, arg |-> arg]

(***************************************************************************)
(* Neo3Provider                                                            *)
(***************************************************************************)
MAINNET_RPC == "https://mainnet1.neo.coz.io:443"
TESTNET_RPC == "https://testnet2.neo.coz.io:443"

NetworkNames == {"mainnet", "testnet", "privnet"}

NoProvider == [t |-> "NoProvider"]

\* NeoRpcClient(rpc_url), a connection handle
NeoRpcClient(url) == [url |-> url, open |-> TRUE]

\* mutant of Neo3Provider.__init__: the network check is missing, anything that
\* is not 'mainnet' is taken for testnet
Neo3Provider_init_unchecked(network) ==
    Returned([t |-> "Neo3Provider",
              network |-> network,
              rpc_client |-> NeoRpcClient(IF network = "mainnet"
                                          THEN MAINNET_RPC ELSE TESTNET_RPC)])

\* Neo3Provider.__init__
Neo3Provider_init(network) ==
    IF network \notin {"mainnet", "testnet"}
    THEN Raised(Exc("ValueError", "Network must be 'mainnet' or 'testnet'"))
    ELSE Returned([t |-> "Neo3Provider",
                   network |-> network,
                   rpc_client |-> NeoRpcClient(IF network = "mainnet"
                                               THEN MAINNET_RPC ELSE TESTNET_RPC)])

\* Neo3Provider._validate_address: the outcome and the codec calls made
InvalidNeoAddress(address) ==
    Raised(Exc("ValueError", "Invalid Neo address: " \o Render(address)))

\* mutant of _validate_address: the standard address is tried first, the script
\* hash only when that fails
_validate_address_address_first(address) ==
    LET arg == IF StartsWith0x(address) THEN DropPrefix(address) ELSE address
        second == UInt160_from_string(arg)
        c1 == <<CodecCall("is_valid_address", address)>>
    IN  IF is_valid_address(address)
        THEN [out |-> address_to_script_hash(address),
              codec |-> c1 \o <<CodecCall("address_to_script_hash", address)>>]
        ELSE [out |-> IF second.kind = "return" THEN second ELSE InvalidNeoAddress(address),
              codec |-> c1 \o <<CodecCall("UInt160.from_string", arg)>>]

\* mutant of _validate_address: only a "0x"-prefixed string is parsed as a script
\* hash, a bare one goes straight to the address check
_validate_address_prefixed_only(address) ==
    LET arg == DropPrefix(address)
        first == UInt160_from_string(arg)
        c2 == <<CodecCall("is_valid_address", address)>>
    IN  IF StartsWith0x(address) /\ first.kind = "return"
        THEN [out |-> first, codec |-> <<CodecCall("UInt160.from_string", arg)>>]
        ELSE IF is_valid_address(address)
             THEN [out |-> address_to_script_hash(address),
                   codec |-> c2 \o <<CodecCall("address_to_script_hash", address)>>]
             ELSE [out |-> InvalidNeoAddress(address), codec |-> c2]

_validate_address(address) ==
    LET arg == IF StartsWith0x(address) THEN DropPrefix(address) ELSE address
        first == UInt160_from_string(arg)
        c1 == <<CodecCall("UInt160.from_string", arg)>>
        c2 == c1 \o <<CodecCall("is_valid_address", address)>>
    IN  IF first.kind = "return"
        THEN [out |-> first, codec |-> c1]
        ELSE IF is_valid_address(address)
             THEN LET conv == address_to_script_hash(address)
                  IN  [out |-> IF conv.kind = "return" THEN conv
                               ELSE InvalidNeoAddress(address),
                       codec |-> c2 \o <<CodecCall("address_to_script_hash", address)>>]
             ELSE [out |-> InvalidNeoAddress(address), codec |-> c2]

\* mutant of validate_address: no try / except around the conversion
validate_address_unguarded(address) ==
    LET r == _validate_address(address)
    IN  [out |-> IF r.out.kind = "return" THEN Returned(BoolV(TRUE)) ELSE r.out,
         codec |-> r.codec]

\* mutant of validate_address: the node's validateaddress RPC is asked instead of
\* the local codec
validate_address_by_rpc(address) ==
    [out |-> [kind |-> "request",
              req |-> [via |-> "_do_post", method |-> "validateaddress",
                       params |-> <<StrV(address)>>]],
     codec |-> <<>>]

\* Neo3Provider.validate_address
validate_address(address) ==
    LET r == _validate_address(address)
    IN  [out |-> Returned(BoolV(r.out.kind = "return")), codec |-> r.codec]

(***************************************************************************)
(* Python conversions used by the Provider and the tools                   *)
(***************************************************************************)
DigitValue ==
    [d \in {"0", "1", "2", "3", "4", "5", "6", "7", "8", "9"} |->
        CASE d = "0" -> 0 [] d = "1" -> 1 [] d = "2" -> 2 [] d = "3" -> 3
          [] d = "4" -> 4 [] d = "5" -> 5 [] d = "6" -> 6 [] d = "7" -> 7
          [] d = "8" -> 8 [] OTHER -> 9]

RECURSIVE DecimalValue(_)
DecimalValue(digits) ==
    IF digits = <<>> THEN 0
    ELSE 10 * DecimalValue(SubSeq(digits, 1, Len(digits) - 1))
         + DigitValue[digits[Len(digits)]]

\* int(s) for a str s
PyInt(s) ==
    IF /\ s.pfx = 0
       /\ s.kind = "hex"
       /\ Len(s.data) > 0
       /\ \A i \in 1..Len(s.data) : s.data[i] \in DOMAIN DigitValue
    THEN Returned(IntV(DecimalValue(s.data)))
    ELSE Raised(Exc("ValueError",
                    "invalid literal for int() with base 10: '" \o Render(s) \o "'"))

RECURSIVE Digits(_)
Digits(n) == IF n < 10 THEN <<ToString(n)>> ELSE Digits(n \div 10) \o <<ToString(n % 10)>>

\* str(n) for a non-negative int n, as a string
IntString(n) == [pfx |-> 0, kind |-> "hex", data |-> Digits(n)]

\* str(v), the text an f-string embeds
PyStr(v) ==
    CASE v.t = "None" -> "None"
      [] v.t = "int" -> ToString(v.n)
      [] v.t = "bool" -> IF v.b THEN "True" ELSE "False"
      [] v.t = "str" -> Render(v.s)
      [] v.t = "text" -> v.text
      [] v.t \in {"UInt160", "UInt256"} -> Render(UIntStr(v))
      [] v.t = "list" -> "[]"
      [] v.t = "dict" -> "{}"
      [] OTHER -> "<" \o v.name \o ">"

(***************************************************************************)
(* Provider query methods.  A method runs up to its await on the RPC       *)
(* client and is resumed with the transport's answer: n is the number of   *)
(* requests this invocation has issued, resp the answer to the last one.   *)
(* A step is a request to send, or the method's outcome.                   *)
(***************************************************************************)
Request(via, method, params) ==
    [kind |-> "request", req |-> [via |-> via, method |-> method, params |-> params]]

ClientCall(method, params) == Request("client", method, params)
DoPost(method, params) == Request("_do_post", method, params)

NoResp == [kind |-> "none"]

\* not v, for a value v an RPC call returns
Falsy(v) ==
    \/ v = NoneV
    \/ v.t = "int" /\ v.n = 0
    \/ v.t = "text" /\ v.text = ""
    \/ v.t = "list" /\ v.items = <<>>
    \/ v.t = "dict"

\* mutant of _handle_response: 'if not result' in place of 'if result is None'
_handle_response_falsy(result) ==
    IF Falsy(result)
    THEN Raised(Exc("Exception", "Empty response from Neo RPC"))
    ELSE Returned(result)

\* mutant of _handle_response: None is passed on like any other result
_handle_response_passthrough(result) == Returned(result)

\* Neo3Provider._handle_response
_handle_response(result) ==
    IF result = NoneV
    THEN Raised(Exc("Exception", "Empty response from Neo RPC"))
    ELSE Returned(result)

\* result = await <request>; return self._handle_response(result)
AwaitThenHandle(request, n, resp) ==
    IF n = 0 THEN request
    ELSE IF resp.kind = "raise" THEN resp ELSE _handle_response(resp.val)

\* result = await <request>; UInt256 -> str(result), else str(_handle_response(result))
AwaitThenHashStr(request, n, resp) ==
    IF n = 0 THEN request
    ELSE IF resp.kind = "raise" THEN resp
    ELSE IF resp.val.t = "UInt256" THEN Returned(StrV(UIntStr(resp.val)))
    ELSE LET h == _handle_response(resp.val)
         IN  IF h.kind = "raise" THEN h ELSE Returned(TextV(PyStr(h.val)))

\* mutant of the exception handler: the cause's message is dropped
Wrap_without_cause(prefix, step) ==
    IF step.kind = "raise"
    THEN Raised(Exc("Exception", prefix))
    ELSE step

\* the exception handler of every query method
Wrap(prefix, step) ==
    IF step.kind = "raise" /\ IsException(step.exc)
    THEN Raised(Exc("Exception", prefix \o step.exc.msg))
    ELSE step

\* after a from_string that must succeed before the request is built
AfterParse(parsed, step) == IF parsed.kind = "raise" THEN parsed ELSE step

get_best_block_hash(a, n, resp) ==
    Wrap("Failed to get best block hash: ",
         AwaitThenHashStr(ClientCall("get_best_block_hash", <<>>), n, resp))

\* get_block and get_block_header: int() first, the hash inside except ValueError
ByIndexOrHash(method, hash_or_index, n, resp) ==
    LET index == PyInt(hash_or_index)
        block_hash == UInt256_from_string(hash_or_index)
        byHash == AfterParse(block_hash, ClientCall(method, <<block_hash.val>>))
        finish == IF resp.kind = "raise" THEN resp ELSE _handle_response(resp.val)
    IN  IF n = 0
        THEN IF index.kind = "return" THEN ClientCall(method, <<index.val>>) ELSE byHash
        ELSE IF /\ n = 1
                /\ index.kind = "return"
                /\ resp.kind = "raise"
                /\ resp.exc.type = "ValueError"
             THEN byHash
             ELSE finish

\* mutant of get_block: verbose is passed on to the client
get_block_passes_verbose(a, n, resp) ==
    LET step == Wrap("Failed to get block: ",
                     ByIndexOrHash("get_block", a.hash_or_index.s, n, resp))
    IN  IF step.kind = "request"
        THEN [step EXCEPT !.req.params = Append(@, a.verbose)]
        ELSE step

get_block(a, n, resp) ==
    Wrap("Failed to get block: ", ByIndexOrHash("get_block", a.hash_or_index.s, n, resp))

get_block_count(a, n, resp) ==
    Wrap("Failed to get block count: ",
         AwaitThenHandle(ClientCall("get_block_count", <<>>), n, resp))

get_block_hash(a, n, resp) ==
    Wrap("Failed to get block hash: ",
         AwaitThenHashStr(ClientCall("get_block_hash", <<a.index>>), n, resp))

get_block_header(a, n, resp) ==
    Wrap("Failed to get block header: ",
         ByIndexOrHash("get_block_header", a.hash_or_index.s, n, resp))

get_committee(a, n, resp) ==
    Wrap("Failed to get committee: ",
         AwaitThenHandle(DoPost("getcommittee", <<>>), n, resp))

get_native_contracts(a, n, resp) ==
    Wrap("Failed to get native contracts: ",
         AwaitThenHandle(DoPost("getnativecontracts", <<>>), n, resp))

get_next_block_validators(a, n, resp) ==
    Wrap("Failed to get next block validators: ",
         AwaitThenHandle(DoPost("getnextblockvalidators", <<>>), n, resp))

get_contract_state(a, n, resp) ==
    LET contract_hash == UInt160_from_string(a.script_hash.s)
    IN  Wrap("Failed to get contract state: ",
             AfterParse(contract_hash,
                 AwaitThenHandle(ClientCall("get_contract_state", <<contract_hash.val>>),
                                 n, resp)))

\* Python truth of an int argument
Truthy(v) == ~(v = NoneV \/ (v.t = "int" /\ v.n = 0))

\* mutant of get_raw_mempool: the flag is ignored, the client's own query is used
get_raw_mempool_verified_only(a, n, resp) ==
    Wrap("Failed to get raw mempool: ",
         AwaitThenHandle(ClientCall("get_raw_mempool", <<>>), n, resp))

get_raw_mempool(a, n, resp) ==
    Wrap("Failed to get raw mempool: ",
         AwaitThenHandle(IF Truthy(a.should_get_unverified)
                         THEN DoPost("getrawmempool", <<a.should_get_unverified>>)
                         ELSE ClientCall("get_raw_mempool", <<>>),
                         n, resp))

get_raw_transaction(a, n, resp) ==
    LET tx_hash == UInt256_from_string(a.txid.s)
    IN  Wrap("Failed to get raw transaction: ",
             AfterParse(tx_hash,
                 AwaitThenHandle(ClientCall("get_transaction", <<tx_hash.val, a.verbose>>),
                                 n, resp)))

get_storage(a, n, resp) ==
    LET contract_hash == UInt160_from_string(a.script_hash.s)
    IN  Wrap("Failed to get storage: ",
             AfterParse(contract_hash,
                 AwaitThenHandle(ClientCall("get_storage", <<contract_hash.val, a.key>>),
                                 n, resp)))

get_transaction_height(a, n, resp) ==
    LET tx_hash == UInt256_from_string(a.txid.s)
    IN  Wrap("Failed to get transaction height: ",
             AfterParse(tx_hash,
                 AwaitThenHandle(ClientCall("get_transaction_height", <<tx_hash.val>>),
                                 n, resp)))

get_connection_count(a, n, resp) ==
    Wrap("Failed to get connection count: ",
         AwaitThenHandle(ClientCall("get_connection_count", <<>>), n, resp))

get_peers(a, n, resp) ==
    Wrap("Failed to get peers: ", AwaitThenHandle(ClientCall("get_peers", <<>>), n, resp))

get_version(a, n, resp) ==
    Wrap("Failed to get version: ",
         AwaitThenHandle(ClientCall("get_version", <<>>), n, resp))

get_unclaimed_gas(a, n, resp) ==
    Wrap("Failed to get unclaimed gas: ",
         AwaitThenHandle(ClientCall("get_unclaimed_gas", <<a.address>>), n, resp))

\* params or [] / signers or []
OrEmptyList(v) == IF v = NoneV \/ (v.t = "list" /\ v.items = <<>>) THEN ListV(<<>>) ELSE v

invoke_function(a, n, resp) ==
    LET contract_hash == UInt160_from_string(a.script_hash.s)
    IN  Wrap("Failed to invoke function: ",
             AfterParse(contract_hash,
                 AwaitThenHandle(
                     ClientCall("invoke_function",
                                <<contract_hash.val, a.operation, OrEmptyList(a.params),
                                  a.sender, OrEmptyList(a.signers)>>),
                     n, resp)))

get_nep11_balances(a, n, resp) ==
    Wrap("Failed to get NEP-11 balances: ",
         AwaitThenHandle(DoPost("getnep11balances", <<a.address>>), n, resp))

get_nep11_properties(a, n, resp) ==
    LET contract_hash_clean ==
            IF StartsWith0x(a.contract_hash.s)
            THEN StrV(DropPrefix(a.contract_hash.s))
            ELSE a.contract_hash
    IN  Wrap("Failed to get NEP-11 properties: ",
             AwaitThenHandle(DoPost("getnep11properties", <<contract_hash_clean, a.token_id>>),
                             n, resp))

get_nep11_transfers(a, n, resp) ==
    Wrap("Failed to get NEP-11 transfers: ",
         AwaitThenHandle(DoPost("getnep11transfers",
                                IF Truthy(a.timestamp)
                                THEN <<a.address, a.timestamp>> ELSE <<a.address>>),
                         n, resp))

get_nep17_balances(a, n, resp) ==
    Wrap("Failed to get NEP-17 balances: ",
         AwaitThenHandle(ClientCall("get_nep17_balances", <<a.address>>), n, resp))

get_nep17_transfers(a, n, resp) ==
    Wrap("Failed to get NEP-17 transfers: ",
         AwaitThenHandle(DoPost("getnep17transfers",
                                IF a.timestamp # NoneV
                                THEN <<a.address, a.timestamp>> ELSE <<a.address>>),
                         n, resp))

get_application_log(a, n, resp) ==
    LET tx_hash == UInt256_from_string(a.txid.s)
    IN  Wrap("Failed to get application log: ",
             AfterParse(tx_hash,
                 AwaitThenHandle(ClientCall("get_application_log", <<tx_hash.val>>),
                                 n, resp)))

\* str.lower() of an RPC method name
Lower(method) ==
    CASE method = "GetStateRoot" -> "getstateroot"
      [] method = "GetStateHeight" -> "getstateheight"
      [] OTHER -> method

\* mutant of _make_request: several values go out in reverse insertion order
_make_request_reversed(method, params, n, resp) ==
    LET rpc_params == [i \in 1..Len(params) |-> params[Len(params) + 1 - i][2]]
    IN  IF n = 0 THEN DoPost(Lower(method), rpc_params)
        ELSE IF resp.kind = "raise"
             THEN Raised(Exc("Exception",
                             "Error making RPC request " \o method \o ": " \o resp.exc.msg))
             ELSE Returned(resp.val)

\* Neo3Provider._make_request; params is the mapping as a sequence of <<key, value>>
_make_request(method, params, n, resp) ==
    LET rpc_params == IF Len(params) = 0 THEN <<>>
                      ELSE IF Len(params) = 1 THEN <<params[1][2]>>
                      ELSE [i \in 1..Len(params) |-> params[i][2]]
    IN  IF n = 0 THEN DoPost(Lower(method), rpc_params)
        ELSE IF resp.kind = "raise"
             THEN IF IsException(resp.exc)
                  THEN Raised(Exc("Exception",
                                  "Error making RPC request " \o method \o ": "
                                      \o resp.exc.msg))
                  ELSE resp
             ELSE Returned(resp.val)

\* result = await self._make_request(...); return self._handle_response(result)
RequestThenHandle(step) ==
    IF step.kind = "return" THEN _handle_response(step.val) ELSE step

get_state_root(a, n, resp) ==
    Wrap("Failed to get state root: ",
         RequestThenHandle(_make_request("getstateroot", <<<<"index", a.index>>>>, n, resp)))

get_state_height(a, n, resp) ==
    Wrap("Failed to get state height: ",
         RequestThenHandle(_make_request("getstateheight", <<>>, n, resp)))

\* the query methods of Neo3Provider, by name
QueryStep(method, a, n, resp) ==
    CASE method = "_make_request" -> _make_request(a.method, a.params, n, resp)
      [] method = "get_best_block_hash" -> get_best_block_hash(a, n, resp)
      [] method = "get_block" -> get_block(a, n, resp)
      [] method = "get_block_count" -> get_block_count(a, n, resp)
      [] method = "get_block_hash" -> get_block_hash(a, n, resp)
      [] method = "get_block_header" -> get_block_header(a, n, resp)
      [] method = "get_committee" -> get_committee(a, n, resp)
      [] method = "get_native_contracts" -> get_native_contracts(a, n, resp)
      [] method = "get_next_block_validators" -> get_next_block_validators(a, n, resp)
      [] method = "get_contract_state" -> get_contract_state(a, n, resp)
      [] method = "get_raw_mempool" -> get_raw_mempool(a, n, resp)
      [] method = "get_raw_transaction" -> get_raw_transaction(a, n, resp)
      [] method = "get_storage" -> get_storage(a, n, resp)
      [] method = "get_transaction_height" -> get_transaction_height(a, n, resp)
      [] method = "get_connection_count" -> get_connection_count(a, n, resp)
      [] method = "get_peers" -> get_peers(a, n, resp)
      [] method = "get_version" -> get_version(a, n, resp)
      [] method = "get_unclaimed_gas" -> get_unclaimed_gas(a, n, resp)
      [] method = "invoke_function" -> invoke_function(a, n, resp)
      [] method = "get_nep11_balances" -> get_nep11_balances(a, n, resp)
      [] method = "get_nep11_properties" -> get_nep11_properties(a, n, resp)
      [] method = "get_nep11_transfers" -> get_nep11_transfers(a, n, resp)
      [] method = "get_nep17_balances" -> get_nep17_balances(a, n, resp)
      [] method = "get_nep17_transfers" -> get_nep17_transfers(a, n, resp)
      [] method = "get_application_log" -> get_application_log(a, n, resp)
      [] method = "get_state_root" -> get_state_root(a, n, resp)
      [] method = "get_state_height" -> get_state_height(a, n, resp)

(***************************************************************************)
(* Tools.  Every execute has the same shape: bind the arguments, construct *)
(* a Provider for the network, await one Provider method, wrap the result. *)
(***************************************************************************)
\* mutant of get_provider: an unknown network falls back to testnet
get_provider_lenient(network) ==
    Neo3Provider_init(IF network \in {"mainnet", "testnet"} THEN network ELSE "testnet")

\* get_provider (base.py)
get_provider(network) == Neo3Provider_init(network)

\* the default of get_provider's network parameter
DefaultNetwork == "testnet"

Sig(method, prefix, required, optional) ==
    [method |-> method, prefix |-> prefix, required |-> required, optional |-> optional]

\* mutant of the tools' network parameter: the default is mainnet
NetworkParam_mainnet == <<"network", TextV("mainnet")>>

NetworkParam == <<"network", TextV("testnet")>>
VerboseParam == <<"verbose", IntV(0)>>

\* the execute signature of each tool: the Provider method it awaits, the text
\* its output starts with, its required parameters and its defaults
ToolTable ==
    [GetBlockCountTool |->
        Sig("get_block_count", "Block count: ", <<>>, <<NetworkParam>>),
     GetBestBlockHashTool |->
        Sig("get_best_block_hash", "Best block hash: ", <<>>, <<NetworkParam>>),
     GetBlockByHashTool |->
        Sig("get_block", "Block info: ", <<"block_hash">>, <<VerboseParam, NetworkParam>>),
     GetBlockByHeightTool |->
        Sig("get_block", "Block info: ", <<"block_height">>, <<VerboseParam, NetworkParam>>),
     GetBlockHashTool |->
        Sig("get_block_hash", "Block hash: ", <<"index">>, <<NetworkParam>>),
     GetBlockHeaderTool |->
        Sig("get_block_header", "Block header: ", <<"hash_or_index">>,
            <<VerboseParam, NetworkParam>>),
     GetContractStateTool |->
        Sig("get_contract_state", "Contract state: ", <<"script_hash">>, <<NetworkParam>>),
     GetStorageTool |->
        Sig("get_storage", "Storage value: ", <<"script_hash", "key">>, <<NetworkParam>>),
     InvokeFunctionTool |->
        Sig("invoke_function", "Invocation result: ", <<"script_hash", "operation">>,
            <<<<"params", NoneV>>, <<"sender", NoneV>>, NetworkParam>>),
     GetNativeContractsTool |->
        Sig("get_native_contracts", "Native contracts: ", <<>>, <<NetworkParam>>),
     GetCommitteeTool |->
        Sig("get_committee", "Committee members: ", <<>>, <<NetworkParam>>),
     GetNextBlockValidatorsTool |->
        Sig("get_next_block_validators", "Next block validators: ", <<>>, <<NetworkParam>>),
     GetNep17BalancesTool |->
        Sig("get_nep17_balances", "NEP-17 balances: ", <<"address">>, <<NetworkParam>>),
     GetNep17TransfersTool |->
        Sig("get_nep17_transfers", "NEP-17 transfers: ", <<"address">>,
            <<<<"timestamp", NoneV>>, NetworkParam>>),
     GetNep11BalancesTool |->
        Sig("get_nep11_balances", "NEP-11 balances: ", <<"address">>, <<NetworkParam>>),
     GetNep11PropertiesTool |->
        Sig("get_nep11_properties", "NEP-11 properties: ", <<"contract_hash", "token_id">>,
            <<NetworkParam>>),
     GetNep11TransfersTool |->
        Sig("get_nep11_transfers", "NEP-11 transfers: ", <<"address">>,
            <<<<"timestamp", NoneV>>, NetworkParam>>),
     GetRawTransactionTool |->
        Sig("get_raw_transaction", "Transaction info: ", <<"txid">>,
            <<VerboseParam, NetworkParam>>),
     GetRawMempoolTool |->
        Sig("get_raw_mempool", "Mempool transactions: ", <<>>,
            <<<<"should_get_unverified", IntV(0)>>, NetworkParam>>),
     GetTransactionHeightTool |->
        Sig("get_transaction_height", "Transaction height: ", <<"txid">>, <<NetworkParam>>),
     GetApplicationLogTool |->
        Sig("get_application_log", "Application log: ", <<"txid">>, <<NetworkParam>>),
     ValidateAddressTool |->
        Sig("validate_address", "Address validation result: ", <<"address">>,
            <<NetworkParam>>),
     GetUnclaimedGasTool |->
        Sig("get_unclaimed_gas", "Unclaimed gas: ", <<"address">>, <<NetworkParam>>)]

Tools == DOMAIN ToolTable

Range(seq) == {seq[i] : i \in 1..Len(seq)}

Required(tool) == Range(ToolTable[tool].required)
Optional(tool) == {o[1] : o \in Range(ToolTable[tool].optional)}
Params(tool) == Required(tool) \cup Optional(tool)
Default(tool, p) == (CHOOSE o \in Range(ToolTable[tool].optional) : o[1] = p)[2]

\* a keyword the caller did not pass
Omitted == [t |-> "omitted"]

RECURSIVE JoinNames(_)
JoinNames(names) ==
    IF names = <<>> THEN ""
    ELSE "'" \o Head(names) \o "'" \o (IF Len(names) > 1 THEN " and " ELSE "")
         \o JoinNames(Tail(names))

\* Python binding the call's keywords to execute's parameters
Bind(tool, given) ==
    LET missing == SelectSeq(ToolTable[tool].required, LAMBDA p : given[p] = Omitted)
    IN  IF missing # <<>>
        THEN Raised(Exc("TypeError",
                        "execute() missing required positional argument: "
                            \o JoinNames(missing)))
        ELSE Returned([p \in Params(tool) |->
                          IF given[p] = Omitted THEN Default(tool, p) ELSE given[p]])

\* the arguments execute passes to the Provider method
MethodArgs(tool, b) ==
    CASE tool = "GetBlockByHashTool" ->
            [hash_or_index |-> b.block_hash, verbose |-> b.verbose]
      [] tool = "GetBlockByHeightTool" ->
            [hash_or_index |-> StrV(IntString(b.block_height.n)), verbose |-> b.verbose]
      [] tool = "InvokeFunctionTool" ->
            [script_hash |-> b.script_hash, operation |-> b.operation,
             params |-> b.params, sender |-> b.sender, signers |-> NoneV]
      [] OTHER -> b

\* spoon_ai ToolResult: output on success, error on failure
ToolResult(output, error) == [t |-> "ToolResult", output |-> output, error |-> error]
\* mutant of the Failure result: the output field is filled as well
Failure_with_output(text) == ToolResult(TextV(text), TextV(text))

Success(text) == ToolResult(TextV(text), NoneV)
Failure(text) == ToolResult(NoneV, TextV(text))

\* hasattr(result, '__dict__') and json.dumps(result.__dict__, ...)
HasDict(v) == v.t = "object"
JsonDumps(v) == "{" \o v.name \o "}"

\* the f-string of the tool's return statement
FormatOutput(tool, result) ==
    ToolTable[tool].prefix \o
        (IF tool = "GetContractStateTool" /\ HasDict(result)
         THEN JsonDumps(result) ELSE PyStr(result))

\* mutant of execute: no try / except, the exception reaches the caller
ToolWrap_propagates(tool, outcome) ==
    IF outcome.kind = "raise"
    THEN outcome
    ELSE Returned(Success(FormatOutput(tool, outcome.val)))

\* mutant of execute: 'except BaseException', a cancellation becomes a Failure
ToolWrap_catches_cancellation(tool, outcome) ==
    IF outcome.kind = "raise"
    THEN Returned(Failure(outcome.exc.msg))
    ELSE Returned(Success(FormatOutput(tool, outcome.val)))

\* the try / except Exception of every execute, applied to the Provider's outcome
ToolWrap(tool, outcome) ==
    IF outcome.kind = "raise" /\ ~IsException(outcome.exc)
    THEN outcome
    ELSE IF outcome.kind = "raise"
    THEN Returned(Failure(outcome.exc.msg))
    ELSE Returned(Success(FormatOutput(tool, outcome.val)))

(***************************************************************************)
(* The environment: what callers pass and what the transport answers       *)
(***************************************************************************)
StringParams == {"address", "script_hash", "contract_hash", "block_hash",
                 "hash_or_index", "txid"}

ParamValues(p) ==
    CASE p \in StringParams -> {StrV(s) : s \in Strings}
      [] p \in {"block_height", "index"} -> {IntV(ChainLen - 1), IntV(11)}
      [] p = "verbose" -> {IntV(0), IntV(1), IntV(2)}
      [] p \in {"key", "token_id", "operation"} -> {TextV(p)}
      [] p = "timestamp" -> {IntV(0), IntV(5)}
      [] p = "should_get_unverified" -> {IntV(0), IntV(1), IntV(2)}
      [] p = "params" -> {ListV(<<>>)}
      [] p = "network" -> {TextV(n) : n \in NetworkNames}
      [] OTHER -> {}

\* every way of calling a tool's execute by keyword
RECURSIVE Keywords(_)
Keywords(names) ==
    IF names = <<>> THEN {<<>>}
    ELSE {(Head(names) :> v) @@ g :
            v \in ParamValues(Head(names)) \cup {Omitted}, g \in Keywords(Tail(names))}

ToolInputs(tool) ==
    Keywords(ToolTable[tool].required
             \o [i \in 1..Len(ToolTable[tool].optional) |-> ToolTable[tool].optional[i][1]])

\* the parameters of the Provider methods no tool wraps
DirectMethods == {"get_connection_count", "get_peers", "get_version",
                  "get_state_root", "get_state_height", "_make_request"}

\* params mappings handed to _make_request, as sequences of <<key, value>> in
\* insertion order
SampleMappings ==
    {<<>>,
     <<<<"index", IntV(1)>>>>,
     <<<<"index", IntV(1)>>, <<"count", IntV(2)>>>>,
     <<<<"count", IntV(2)>>, <<"index", IntV(1)>>>>,
     <<<<"count", IntV(1)>>, <<"index", IntV(2)>>>>}

DirectInputs(method) ==
    IF method = "get_state_root"
    THEN {[index |-> i] : i \in ParamValues("index")}
    ELSE IF method = "_make_request"
    THEN {[method |-> m, params |-> ps] :
             m \in {"GetStateRoot", "getstateheight"}, ps \in SampleMappings}
    ELSE {[none |-> NoneV]}

SampleHash == [i \in 1..UInt256Len |-> IF i = 1 THEN "1" ELSE "a"]

\* what the RPC client hands back, or raises
RpcReturns == {NoneV, IntV(0), ListV(<<>>), TextV(""), EmptyDictV,
               UInt256V(SampleHash), ObjV("Result")}
RpcErrors == {Exc("ValueError", "malformed response"),
              Exc("JsonRpcError", "connection timed out")}
RpcAnswers == {Returned(v) : v \in RpcReturns} \cup {Raised(e) : e \in RpcErrors}

\* A node that serves one fixed chain of ChainLen blocks.  Block i has the hash
\* BlockHashOf(i) (block 0's is written in decimal digits only) and the payload
\* Block(i); its header is Header(i).
BlockHashOf(i) == [k \in 1..UInt256Len |-> IF k <= i THEN "a" ELSE "1"]
Block(i) == ObjV("Block " \o ToString(i))
Header(i) == ObjV("Header " \o ToString(i))

ChainMethods == {"get_block_count", "get_block_hash", "get_best_block_hash",
                 "get_block", "get_block_header"}

UnknownBlock == Raised(Exc("JsonRpcError", "Unknown block"))

\* the block the request's first parameter names: a height or a hash
Lookup(key) ==
    IF key.t = "int"
    THEN {i \in 0..(ChainLen - 1) : i = key.n}
    ELSE {i \in 0..(ChainLen - 1) : key.t = "UInt256" /\ BlockHashOf(i) = key.data}

\* what the client hands back for a request sent to that node
NodeAnswer(req) ==
    CASE req.method = "get_block_count" -> Returned(IntV(ChainLen))
      [] req.method = "get_best_block_hash" -> Returned(UInt256V(BlockHashOf(ChainLen - 1)))
      [] req.method = "get_block_hash" ->
            IF Lookup(req.params[1]) = {} THEN UnknownBlock
            ELSE Returned(UInt256V(BlockHashOf(CHOOSE i \in Lookup(req.params[1]) : TRUE)))
      [] req.method = "get_block" ->
            IF Lookup(req.params[1]) = {} THEN UnknownBlock
            ELSE Returned(Block(CHOOSE i \in Lookup(req.params[1]) : TRUE))
      [] OTHER ->
            IF Lookup(req.params[1]) = {} THEN UnknownBlock
            ELSE Returned(Header(CHOOSE i \in Lookup(req.params[1]) : TRUE))

(***************************************************************************)
(* State                                                                   *)
(***************************************************************************)
Idle == [pc |-> "idle"]

Pending == [kind |-> "pending"]

\* An invocation about to run: layer "tool" (execute of a tool) or "provider"
\* (a method called on prov).  given is what the caller passed, args what the
\* Provider method receives, provider the Provider it runs on; reqs and resps
\* are the requests it sent and the answers it got, codec the codec calls it
\* made, inner the Provider method's outcome and out the caller's; origin is
\* the script hash whose string form the caller passed, when it did.
NewCall(layer, op, given, method, args, provider) ==
    [pc |-> "start", layer |-> layer, op |-> op, given |-> given, method |-> method,
     args |-> args, provider |-> provider, reqs |-> <<>>, resps |-> <<>>,
     codec |-> <<>>, inner |-> Pending, out |-> Pending, origin |-> NoneV]

\* the request as the transport sees it: sent through the provider's client
OnWire(provider, req) == [url |-> provider.rpc_client.url, via |-> req.via,
                          method |-> req.method, params |-> req.params]

\* what the caller of the invocation gets from the Provider method's outcome
CallerOutcome(layer, op, outcome) ==
    IF layer = "tool" THEN ToolWrap(op, outcome) ELSE outcome

\* the invocation ends with this outcome of the Provider method (or of get_provider)
Finish(c, outcome) ==
    [c EXCEPT !.pc = "done", !.inner = outcome,
              !.out = CallerOutcome(c.layer, c.op, outcome)]

\* the local (synchronous) methods: the outcome and the codec calls
LocalMethods == {"validate_address", "_validate_address"}

LocalCall(method, a) ==
    IF method = "validate_address"
    THEN validate_address(a.address.s)
    ELSE _validate_address(a.address.s)

\* run the Provider method of c from its start, or resume it with the answer
\* to the request it awaits
Advance(c, resp) ==
    IF c.method \in LocalMethods
    THEN LET r == LocalCall(c.method, c.args)
         IN  IF r.out.kind = "request"
             THEN [c EXCEPT !.pc = "await", !.codec = r.codec,
                            !.reqs = Append(@, OnWire(c.provider, r.out.req))]
             ELSE Finish([c EXCEPT !.codec = r.codec], r.out)
    ELSE LET step == QueryStep(c.method, c.args, Len(c.reqs), resp)
         IN  IF step.kind = "request"
             THEN [c EXCEPT !.pc = "await",
                            !.reqs = Append(@, OnWire(c.provider, step.req))]
             ELSE Finish(c, step)

\* tool.execute(**given) up to its first await, or to its end
execute(tool, given) ==
    LET b == Bind(tool, given)
        p == get_provider(b.val.network.text)
        method == ToolTable[tool].method
        c == NewCall("tool", tool, given, method, NoneV, NoProvider)
    IN  IF b.kind = "raise"
        THEN [c EXCEPT !.pc = "done", !.out = b]
        ELSE IF p.kind = "raise"
        THEN Finish(c, p)
        ELSE Advance([c EXCEPT !.args = MethodArgs(tool, b.val), !.provider = p.val],
                     NoResp)

\* mutant of close: the client is replaced by a closed one for the default network
close_resets_endpoint(p) ==
    [p EXCEPT !.rpc_client = [url |-> TESTNET_RPC, open |-> FALSE]]

\* Neo3Provider.close
close(p) == [p EXCEPT !.rpc_client.open = FALSE]

\* mutant of the construction in get_provider: one module-level Provider
\* object is handed to every caller
Allocate_cached(h) == 1

\* return Neo3Provider(network): a new object, at the next free place of the heap
Allocate(h) == Len(h) + 1

Invocations == 1..MaxInvocations

\* tool.execute(**given) of a concurrent invocation, up to its first await or
\* to its end: the invocation, the Provider object it holds, the heap after it
executeOnHeap(tool, given, h) ==
    LET b == Bind(tool, given)
        p == get_provider(b.val.network.text)
        ref == Allocate(h)
        h2 == IF ref > Len(h) THEN Append(h, p.val) ELSE h
        c == NewCall("tool", tool, given, ToolTable[tool].method, NoneV, NoProvider)
    IN  IF b.kind = "raise"
        THEN [call |-> [c EXCEPT !.pc = "done", !.out = b], ref |-> 0, heap |-> h]
        ELSE IF p.kind = "raise"
        THEN [call |-> Finish(c, p), ref |-> 0, heap |-> h]
        ELSE [call |-> Advance([c EXCEPT !.args = MethodArgs(tool, b.val),
                                         !.provider = h2[ref]], NoResp),
              ref |-> ref, heap |-> h2]

Init ==
    /\ call = Idle
    /\ prov = NoProvider
    /\ running = [i \in Invocations |-> [call |-> Idle, ref |-> 0]]
    /\ heap = <<>>

(***************************************************************************)
(* Actions                                                                 *)
(***************************************************************************)
\* await tool.execute(**given)
Execute ==
    /\ call.pc = "idle"
    /\ \E tool \in Tools : \E given \in ToolInputs(tool) : call' = execute(tool, given)
    /\ UNCHANGED <<prov, running, heap>>

\* provider = Neo3Provider(network)
Construct ==
    /\ call.pc = "idle"
    /\ \E network \in NetworkNames :
          LET p == Neo3Provider_init(network)
              c == NewCall("provider", "__init__", [network |-> TextV(network)],
                           "__init__", NoneV, NoProvider)
          IN  /\ prov' = IF p.kind = "return" THEN p.val ELSE prov
              /\ call' = Finish([c EXCEPT !.provider =
                                    IF p.kind = "return" THEN p.val ELSE NoProvider], p)
    /\ UNCHANGED <<running, heap>>

\* provider = get_provider() or get_provider(network)
GetProvider ==
    /\ call.pc = "idle"
    /\ \E given \in Keywords(<<"network">>) :
          LET network == IF given.network = Omitted THEN DefaultNetwork
                         ELSE given.network.text
              p == get_provider(network)
              c == NewCall("provider", "get_provider", given, "get_provider", NoneV,
                           NoProvider)
          IN  /\ prov' = IF p.kind = "return" THEN p.val ELSE prov
              /\ call' = Finish([c EXCEPT !.provider =
                                    IF p.kind = "return" THEN p.val ELSE NoProvider], p)
    /\ UNCHANGED <<running, heap>>

\* await provider.<method>(...) on the caller's own Provider
Query ==
    /\ call.pc = "idle"
    /\ prov # NoProvider
    /\ \E method \in DirectMethods : \E args \in DirectInputs(method) :
          call' = Advance(NewCall("provider", method, args, method, args, prov), NoResp)
    /\ UNCHANGED <<prov, running, heap>>

\* the transport answers the request the invocation awaits
RpcAnswer ==
    /\ call.pc = "await"
    /\ \E resp \in RpcAnswers :
          call' = Advance([call EXCEPT !.resps = Append(@, resp)], resp)
    /\ UNCHANGED <<prov, running, heap>>

\* provider.validate_address(address)
ValidateAddress ==
    /\ call.pc = "idle"
    /\ prov # NoProvider
    /\ \E address \in Strings :
          LET a == [address |-> StrV(address)]
          IN  call' = Advance(NewCall("provider", "validate_address", a,
                                      "validate_address", a, prov), NoResp)
    /\ UNCHANGED <<prov, running, heap>>

\* provider._validate_address(address)
ConvertAddress ==
    /\ call.pc = "idle"
    /\ prov # NoProvider
    /\ \E address \in Strings :
          LET a == [address |-> StrV(address)]
          IN  call' = Advance(NewCall("provider", "_validate_address", a,
                                      "_validate_address", a, prov), NoResp)
    /\ UNCHANGED <<prov, running, heap>>

\* provider._validate_address(str(h)) for the script hash h a standard address
\* was just converted to; the caller passes str(h) with or without its "0x"
Reconvert ==
    /\ call.pc = "done"
    /\ call.method = "_validate_address"
    /\ call.out.kind = "return"
    /\ is_valid_address(call.args.address.s)
    /\ \E text \in {UIntStr(call.out.val), DropPrefix(UIntStr(call.out.val))} :
          LET a == [address |-> StrV(text)]
              c == NewCall("provider", "_validate_address", a, "_validate_address", a, prov)
          IN  call' = Advance([c EXCEPT !.origin = call.out.val], NoResp)
    /\ UNCHANGED <<prov, running, heap>>

\* await provider.close()
Close ==
    /\ call.pc = "idle"
    /\ prov # NoProvider
    /\ prov' = close(prov)
    /\ call' = Finish(NewCall("provider", "close", NoneV, "close", NoneV, prov'),
                      Returned(NoneV))
    /\ UNCHANGED <<running, heap>>

\* the node serving the chain answers the request the invocation awaits
NodeAnswers ==
    /\ call.pc = "await"
    /\ call.reqs[Len(call.reqs)].method \in ChainMethods
    /\ LET resp == NodeAnswer(call.reqs[Len(call.reqs)])
       IN  call' = Advance([call EXCEPT !.resps = Append(@, resp)], resp)
    /\ UNCHANGED <<prov, running, heap>>

\* await provider.get_block_count() / get_block_hash(index) / get_block(str(index))
\* on the caller's own Provider
BlockQuery ==
    /\ call.pc = "idle"
    /\ prov # NoProvider
    /\ \E index \in ParamValues("index") :
       \E q \in {[method |-> "get_block_count", args |-> [none |-> NoneV]],
                 [method |-> "get_block_hash", args |-> [index |-> index]],
                 [method |-> "get_block",
                  args |-> [hash_or_index |-> StrV(IntString(index.n)),
                            verbose |-> IntV(0)]]} :
          call' = Advance(NewCall("provider", q.method, q.args, q.method, q.args, prov),
                          NoResp)
    /\ UNCHANGED <<prov, running, heap>>

\* the block is fetched by the hash string get_block_hash(index) has just
\* returned: provider.get_block(block_hash), or GetBlockByHashTool.execute
BlockByHash ==
    /\ call.pc = "done"
    /\ call.layer = "provider"
    /\ call.method = "get_block_hash"
    /\ call.inner.kind = "return"
    /\ call.inner.val.t = "str"
    /\ call.resps = <<NodeAnswer(call.reqs[1])>>
    /\ LET a == [hash_or_index |-> call.inner.val, verbose |-> IntV(0)]
           given == [block_hash |-> call.inner.val, verbose |-> Omitted,
                     network |-> TextV(prov.network)]
       IN  \E c \in {Advance(NewCall("provider", "get_block", a, "get_block", a, prov),
                              NoResp),
                      execute("GetBlockByHashTool", given)} :
              call' = [c EXCEPT !.origin = call.args.index]
    /\ UNCHANGED <<prov, running, heap>>

\* the caller takes the outcome; the invocation is over
Return ==
    /\ call.pc = "done"
    /\ call' = Idle
    /\ UNCHANGED <<prov, running, heap>>

Next ==
    \/ Execute
    \/ Construct
    \/ GetProvider
    \/ Query
    \/ RpcAnswer
    \/ ValidateAddress
    \/ ConvertAddress
    \/ Reconvert
    \/ Close
    \/ NodeAnswers
    \/ BlockQuery
    \/ BlockByHash
    \/ Return

Spec == Init /\ [][Next]_vars

\* the caller cancels the task that awaits the RPC round trip: CancelledError
\* is thrown into the invocation at its await
Cancellation == Raised(Exc("CancelledError", ""))

Cancel ==
    /\ call.pc = "await"
    /\ call' = Advance([call EXCEPT !.resps = Append(@, Cancellation)], Cancellation)
    /\ UNCHANGED <<prov, running, heap>>

CancelNext == Next \/ Cancel

\* the sequential program with a caller that may cancel
CancelSpec == Init /\ [][CancelNext]_vars

\* the RPC call an invocation awaits eventually returns or raises
LiveSpec == Spec /\ WF_vars(RpcAnswer)

(***************************************************************************)
(* Concurrent tool invocations                                             *)
(***************************************************************************)
\* the tools and arguments of the concurrent invocations
ConcTools == {"GetBlockCountTool", "GetNep17BalancesTool"}

SampleAddress == [pfx |-> 0, kind |-> "addr", data |-> [i \in 1..UInt160Len |-> "1"]]

ConcInputs(tool) ==
    {g \in [Params(tool) -> {Omitted, StrV(SampleAddress), TextV("mainnet"),
                             TextV("privnet")}] :
        /\ g.network # StrV(SampleAddress)
        /\ \A q \in Params(tool) \ {"network"} : g[q] = StrV(SampleAddress)}

\* asyncio starts another tool.execute(**given) while others are in flight
Invoke ==
    /\ \E i \in Invocations :
          /\ running[i].call.pc = "idle"
          /\ \E tool \in ConcTools : \E given \in ConcInputs(tool) :
                LET s == executeOnHeap(tool, given, heap)
                IN  /\ running' = [running EXCEPT ![i] = [call |-> s.call, ref |-> s.ref]]
                    /\ heap' = s.heap
    /\ UNCHANGED <<call, prov>>

\* the transport answers the request one of the invocations awaits
Respond ==
    /\ \E i \in Invocations :
          /\ running[i].call.pc = "await"
          /\ \E resp \in RpcAnswers :
                running' = [running EXCEPT ![i].call =
                               Advance([@ EXCEPT !.resps = Append(@, resp),
                                                 !.provider = heap[running[i].ref]],
                                       resp)]
    /\ UNCHANGED <<call, prov, heap>>

ConcNext ==
    \/ Invoke
    \/ Respond

ConcSpec == Init /\ [][ConcNext]_vars

(***************************************************************************)
(* Properties                                                              *)
(***************************************************************************)
ToolDone == call.pc = "done" /\ call.layer = "tool"

\* the required parameters the caller left out
Missing(tool, given) == {p \in Required(tool) : given[p] = Omitted}

LastResp == call.resps[Len(call.resps)]

\* the Provider method of the invocation was entered and has ended
MethodDone == call.pc = "done" /\ call.args # NoneV

IsFailure(r) == r.t = "ToolResult" /\ r.error # NoneV /\ r.output = NoneV
IsSuccess(r) == r.t = "ToolResult" /\ r.output # NoneV /\ r.error = NoneV

\* C1: for every tool, every combination of parameter values and every
\* transport outcome (a value, an exception, an empty response), execute
\* returns a ToolResult and raises nothing; whatever was raised inside it
\* (validation, network, RPC) comes back as a Failure whose error is str() of
\* that exception, and a transport exception or an empty response as the last
\* answer always ends in a Failure.
C1_ExecuteReturnsToolResult ==
    (ToolDone /\ Missing(call.op, call.given) = {}) =>
        /\ call.out.kind = "return"
        /\ call.out.val.t = "ToolResult"
        /\ call.inner.kind = "raise" => call.out.val = Failure(call.inner.exc.msg)
        /\ call.inner.kind = "return" => IsSuccess(call.out.val)
        /\ (call.resps # <<>> /\ (LastResp.kind = "raise" \/ LastResp = Returned(NoneV)))
              => IsFailure(call.out.val)

\* C1 witness: a tool whose RPC request was answered by an exception has
\* returned a Failure
C1_Witness ==
    /\ ToolDone
    /\ call.resps # <<>>
    /\ LastResp.kind = "raise"
    /\ call.out.kind = "return"
    /\ IsFailure(call.out.val)

\* C2: every ToolResult a tool invocation produces has exactly one of output
\* and error set
C2_ExactlyOneField ==
    (ToolDone /\ call.out.kind = "return") =>
        /\ call.out.val.t = "ToolResult"
        /\ (call.out.val.output = NoneV) # (call.out.val.error = NoneV)

\* C2 witness: a Failure after a request was sent, with only error set
C2_Witness ==
    /\ ToolDone
    /\ call.reqs # <<>>
    /\ call.out.kind = "return"
    /\ call.out.val.error # NoneV
    /\ call.out.val.output = NoneV

\* C3: an invocation of a Provider query method (directly or through a tool)
\* issues at most one RPC request, exactly one once local validation passed,
\* and none after a request that failed
C3_AtMostOneRequest ==
    call.pc \in {"await", "done"} =>
        /\ Len(call.reqs) <= 1
        /\ \A i \in 1..Len(call.resps) : call.resps[i].kind = "raise" => Len(call.reqs) <= i
        /\ (call.pc = "done" /\ call.reqs = <<>> /\ call.inner # Pending
               /\ call.method \notin LocalMethods \cup {"__init__", "get_provider", "close"})
              => call.inner.kind = "raise"

\* C4: Neo3Provider(network) raises ValueError "Network must be 'mainnet' or
\* 'testnet'" and creates no RPC client for any other network string, and
\* succeeds for 'mainnet' and 'testnet'
C4_ConstructorValidatesNetwork ==
    (call.pc = "done" /\ call.op = "__init__") =>
        IF call.given.network.text \in {"mainnet", "testnet"}
        THEN /\ call.out.kind = "return"
             /\ call.out.val.network = call.given.network.text
             /\ call.out.val.rpc_client.open
             /\ prov = call.out.val
        ELSE /\ call.out = Raised(Exc("ValueError", "Network must be 'mainnet' or 'testnet'"))
             /\ call.provider = NoProvider

\* C4 witness: a construction with another network string has raised
C4_Witness ==
    /\ call.pc = "done"
    /\ call.op = "__init__"
    /\ call.given.network.text = "privnet"
    /\ call.out.kind = "raise"

\* C5: execute called with a required parameter left out returns a Failure
\* (it does not raise)
C5_MissingParameterIsFailure ==
    (ToolDone /\ Missing(call.op, call.given) # {}) =>
        /\ call.out.kind = "return"
        /\ IsFailure(call.out.val)

\* the context texts a Provider method puts in front of a cause's message
Contexts ==
    {"", "Failed to get best block hash: ", "Failed to get block: ",
     "Failed to get block count: ", "Failed to get block hash: ",
     "Failed to get block header: "}

\* text contains m (as its tail, behind one of the context texts)
Contains(text, m) == \E pre \in Contexts : text = pre \o m

\* C6: when the transport raises with message m on the block-count call,
\* GetBlockCountTool.execute returns a Failure whose error contains m and whose
\* output is unset
C6_BlockCountTransportError ==
    (ToolDone /\ call.op = "GetBlockCountTool" /\ call.resps # <<>>
        /\ LastResp.kind = "raise") =>
        /\ call.out.kind = "return"
        /\ call.out.val.t = "ToolResult"
        /\ call.out.val.output = NoneV
        /\ call.out.val.error.t = "text"
        /\ Contains(call.out.val.error.text, LastResp.exc.msg)

\* C6 witness: GetBlockCountTool finished after the transport raised
C6_Witness ==
    /\ ToolDone
    /\ call.op = "GetBlockCountTool"
    /\ call.resps # <<>>
    /\ LastResp = Raised(Exc("JsonRpcError", "connection timed out"))
    /\ call.out.kind = "return"

\* the codec accepts s as a script hash, with or without "0x" in front, or as a
\* standard address
AcceptedByCodec(s) ==
    \/ UInt160_from_string(s).kind = "return"
    \/ StartsWith0x(s) /\ UInt160_from_string(DropPrefix(s)).kind = "return"
    \/ is_valid_address(s)

\* C7: validate_address returns a boolean for every string, True exactly when
\* the codec accepts the string as a script hash (with or without "0x") or as
\* a standard address, and no exception escapes it
C7_ValidateAddressTotal ==
    (MethodDone /\ call.method = "validate_address") =>
        call.inner = Returned(BoolV(AcceptedByCodec(call.args.address.s)))

\* C7 witness: validate_address has returned False for "invalid_address_123"
C7_Witness ==
    /\ MethodDone
    /\ call.method = "validate_address"
    /\ call.layer = "provider"
    /\ call.args.address.s = [pfx |-> 0, kind |-> "junk", data |-> <<>>]
    /\ call.inner = Returned(BoolV(FALSE))

\* C8: whatever was done on the provider before, validate_address issues no
\* RPC request and leaves the provider's network and RPC client as they were
C8_ValidateAddressIsLocal ==
    [][(call.pc = "idle" /\ call'.pc # "idle" /\ call'.method = "validate_address"
            /\ call'.provider # NoProvider) =>
        /\ call'.pc = "done"
        /\ call'.reqs = <<>>
        /\ prov' = prov
        /\ call'.layer = "provider" => call'.provider = prov
        /\ call'.layer = "tool" =>
              call'.provider = get_provider(call'.provider.network).val]_vars

\* C8 witness: validate_address has run on a provider that was closed before
C8_Witness ==
    /\ MethodDone
    /\ call.method = "validate_address"
    /\ call.layer = "provider"
    /\ ~prov.rpc_client.open
    /\ call.reqs = <<>>

\* C9: _validate_address first parses the string, less an optional "0x", as a
\* script hash and consults the address codec only when that fails; it raises
\* 'Invalid Neo address' only when both fail
C9_HashFirstThenAddress ==
    (MethodDone /\ call.method \in LocalMethods) =>
        LET s == call.args.address.s
            arg == IF StartsWith0x(s) THEN DropPrefix(s) ELSE s
            parsed == UInt160_from_string(arg)
            result == IF call.method = "_validate_address" THEN call.inner
                      ELSE _validate_address(s).out
        IN  /\ call.codec # <<>>
            /\ call.codec[1] = CodecCall("UInt160.from_string", arg)
            /\ parsed.kind = "return" => (call.codec = <<call.codec[1]>> /\ result = parsed)
            /\ parsed.kind = "raise" =>
                  /\ Len(call.codec) >= 2
                  /\ call.codec[2] = CodecCall("is_valid_address", s)
                  /\ is_valid_address(s) =>
                        /\ call.codec = SubSeq(call.codec, 1, 2)
                                          \o <<CodecCall("address_to_script_hash", s)>>
                        /\ result = address_to_script_hash(s)
                  /\ ~is_valid_address(s) => Len(call.codec) = 2
            /\ (result.kind = "raise") <=> (parsed.kind = "raise" /\ ~is_valid_address(s))
            /\ result.kind = "raise" =>
                  result.exc = Exc("ValueError", "Invalid Neo address: " \o Render(s))

\* C9 witness: a standard address was converted after the script-hash parse failed
C9_Witness ==
    /\ call.pc = "done"
    /\ call.method = "_validate_address"
    /\ Len(call.codec) = 3
    /\ call.out.kind = "return"

\* C10: for a valid standard address A converted to the script hash h,
\* converting the string form of h (with or without its "0x") yields h again
C10_RoundTrip ==
    (call.pc = "done" /\ call.method = "_validate_address" /\ call.origin # NoneV) =>
        call.out = Returned(call.origin)

\* C10 witness: the bare string form of a script hash that is not its own
\* reverse was converted again
C10_Witness ==
    /\ call.pc = "done"
    /\ call.method = "_validate_address"
    /\ call.origin # NoneV
    /\ call.origin.data # Reverse(call.origin.data)
    /\ call.args.address.s.pfx = 0
    /\ call.out.kind = "return"

\* the invocation c run to its end with the node answering every request
RECURSIVE OnChain(_)
OnChain(c) ==
    IF c.pc # "await" THEN c
    ELSE LET resp == NodeAnswer(c.reqs[Len(c.reqs)])
         IN  OnChain(Advance([c EXCEPT !.resps = Append(@, resp)], resp))

\* every answer the invocation got came from the node serving the chain
AnsweredByNode ==
    /\ call.resps # <<>>
    /\ \A i \in 1..Len(call.resps) : call.resps[i] = NodeAnswer(call.reqs[i])

\* the block at that height fetched by its height, at the layer of the invocation
ByHeight(c) ==
    IF c.layer = "provider"
    THEN LET a == [hash_or_index |-> StrV(IntString(c.origin.n)), verbose |-> IntV(0)]
         IN  OnChain(Advance(NewCall("provider", "get_block", a, "get_block", a, c.provider),
                             NoResp))
    ELSE OnChain(execute("GetBlockByHeightTool",
                         [block_height |-> c.origin, verbose |-> Omitted,
                          network |-> c.given.network]))

AddressMethods == {"get_nep17_balances", "get_nep11_balances", "get_nep17_transfers",
                   "get_nep11_transfers", "get_unclaimed_gas"}

\* the query methods that take a verbose flag, enumerated {0, 1}
VerboseMethods == {"get_block", "get_block_header", "get_raw_transaction"}

\* the value is a string the codec rejects as what the parameter must be
MalformedAddress(a) == ~AcceptedByCodec(a.address.s)

MalformedHash(method, a) ==
    CASE method \in {"get_contract_state", "get_storage", "invoke_function"} ->
            UInt160_from_string(a.script_hash.s).kind = "raise"
      [] method = "get_nep11_properties" ->
            UInt160_from_string(a.contract_hash.s).kind = "raise"
      [] method \in {"get_raw_transaction", "get_transaction_height",
                     "get_application_log"} ->
            UInt256_from_string(a.txid.s).kind = "raise"
      [] method \in {"get_block", "get_block_header"} ->
            /\ PyInt(a.hash_or_index.s).kind = "raise"
            /\ UInt256_from_string(a.hash_or_index.s).kind = "raise"
      [] OTHER -> FALSE

BadVerbose(method, a) == method \in VerboseMethods /\ a.verbose \notin {IntV(0), IntV(1)}

\* the Provider method of the invocation was entered
MethodEntered == call.pc \in {"await", "done"} /\ call.args # NoneV

\* C12: a Provider query method handed a malformed address, hash or
\* enumerated value fails before any RPC call: it raises and no request is sent
C12_MalformedInputSendsNothing ==
    (/\ MethodEntered
     /\ \/ call.method \in AddressMethods /\ MalformedAddress(call.args)
        \/ MalformedHash(call.method, call.args)
        \/ BadVerbose(call.method, call.args)) =>
        /\ call.reqs = <<>>
        /\ call.pc = "done"
        /\ call.inner.kind = "raise"

\* the endpoint of a network name
Endpoint(network) == IF network = "mainnet" THEN MAINNET_RPC ELSE TESTNET_RPC

\* a tool's execute was entered with every required parameter supplied
ToolEntered ==
    /\ call.pc \in {"await", "done"}
    /\ call.layer = "tool"
    /\ Missing(call.op, call.given) = {}

\* C13: with the network parameter omitted, every tool's execute and
\* get_provider construct a Provider for 'testnet' that targets the testnet
\* endpoint; with it supplied, that value alone chooses the network, whatever
\* the other parameters are
C13_NetworkDefaultsToTestnet ==
    /\ (ToolEntered /\ call.given.network = Omitted) =>
          /\ call.provider # NoProvider
          /\ call.provider.network = "testnet"
          /\ call.provider.rpc_client.url = TESTNET_RPC
          /\ \A i \in 1..Len(call.reqs) : call.reqs[i].url = TESTNET_RPC
    /\ (ToolEntered /\ call.given.network # Omitted) =>
          IF call.given.network.text \in {"mainnet", "testnet"}
          THEN /\ call.provider # NoProvider
               /\ call.provider.network = call.given.network.text
               /\ call.provider.rpc_client.url = Endpoint(call.given.network.text)
               /\ \A i \in 1..Len(call.reqs) :
                     call.reqs[i].url = Endpoint(call.given.network.text)
          ELSE call.provider = NoProvider /\ call.reqs = <<>>
    /\ (call.pc = "done" /\ call.op = "get_provider" /\ call.given.network = Omitted) =>
          /\ call.out.kind = "return"
          /\ call.out.val.network = "testnet"
          /\ call.out.val.rpc_client.url = TESTNET_RPC

\* C13 witness: a tool called without the network parameter has sent its
\* request to the testnet endpoint
C13_Witness ==
    /\ ToolEntered
    /\ call.given.network = Omitted
    /\ call.op = "GetNep17BalancesTool"
    /\ call.reqs # <<>>
    /\ call.reqs[1].url = TESTNET_RPC

\* C14: after a tool's execute has completed, with a Success or with a
\* Failure, the Provider it constructed has had its RPC connection handle
\* released
C14_ToolReleasesConnection ==
    (ToolDone /\ call.provider # NoProvider) => ~call.provider.rpc_client.open

\* the invocation replayed from its start with these answers
RECURSIVE Replay(_, _)
Replay(c, resps) ==
    IF c.pc # "await" \/ resps = <<>> THEN c
    ELSE Replay(Advance([c EXCEPT !.resps = Append(@, Head(resps))], Head(resps)),
                Tail(resps))

\* the invocation run alone against the answers it got
Alone(c) == Replay(execute(c.op, c.given), c.resps)

\* C15: however concurrent tool invocations interleave, each holds a Provider
\* object of its own, constructed for its own network and untouched by the
\* others, and what it has done and returned is what it does when run alone
\* against the same RPC answers
C15_ConcurrentInvocationsIndependent ==
    /\ \A i \in Invocations : \A j \in Invocations :
          (i # j /\ running[i].ref # 0 /\ running[j].ref # 0) =>
              running[i].ref # running[j].ref
    /\ \A i \in Invocations :
          running[i].call.pc # "idle" =>
              /\ running[i].call = Alone(running[i].call)
              /\ running[i].ref # 0 =>
                    /\ running[i].ref \in 1..Len(heap)
                    /\ heap[running[i].ref] = running[i].call.provider
                    /\ heap[running[i].ref] = Alone(running[i].call).provider

\* C15 witness: two invocations for different networks were in flight together
\* and both have ended, the second to start being the first to finish
C15_Witness ==
    /\ running[1].call.pc = "done"
    /\ running[2].call.pc = "done"
    /\ running[1].ref = 2
    /\ running[2].ref = 1
    /\ running[1].call.provider.network # running[2].call.provider.network
    /\ running[1].call.resps # <<>>
    /\ running[2].call.resps # <<>>

\* C16: a tool invocation goes Idle -> Invoked -> {Success, Failure}: when the
\* RPC call it awaits eventually returns or raises it reaches a terminal
\* state, which is a Success or a Failure, after at most one RPC round trip,
\* and a terminal result never changes
C16_InvokedThenTerminal ==
    /\ [](ToolEntered => (Len(call.reqs) <= 1 /\ Len(call.resps) <= 1))
    /\ [](ToolEntered /\ call.pc = "done" =>
             /\ call.out.kind = "return"
             /\ IsSuccess(call.out.val) # IsFailure(call.out.val))
    /\ [][(ToolEntered /\ call.pc = "done" /\ call'.pc = "done") => call' = call]_vars
    /\ (ToolEntered /\ call.pc = "await") ~> (call.pc = "done")

\* C17: get_nep17_transfers and get_nep11_transfers post [address] when no
\* timestamp is supplied and [address, timestamp], in that order, when an
\* integer timestamp is supplied, 0 included
C17_TransfersParameterList ==
    (MethodEntered /\ call.method \in {"get_nep17_transfers", "get_nep11_transfers"}) =>
        /\ call.reqs # <<>>
        /\ call.reqs[1].params =
              IF call.args.timestamp = NoneV
              THEN <<call.args.address>>
              ELSE <<call.args.address, call.args.timestamp>>

\* the context text each query method puts in front of a cause's message
FailedTo ==
    {"Failed to get best block hash: ", "Failed to get block: ",
     "Failed to get block count: ", "Failed to get block hash: ",
     "Failed to get block header: ", "Failed to get committee: ",
     "Failed to get native contracts: ", "Failed to get next block validators: ",
     "Failed to get contract state: ", "Failed to get raw mempool: ",
     "Failed to get raw transaction: ", "Failed to get storage: ",
     "Failed to get transaction height: ", "Failed to get connection count: ",
     "Failed to get peers: ", "Failed to get version: ",
     "Failed to get unclaimed gas: ", "Failed to invoke function: ",
     "Failed to get NEP-11 balances: ", "Failed to get NEP-11 properties: ",
     "Failed to get NEP-11 transfers: ", "Failed to get NEP-17 balances: ",
     "Failed to get NEP-17 transfers: ", "Failed to get application log: ",
     "Failed to get state root: ", "Failed to get state height: "}

\* a query method of the Provider (one that calls the RPC client) has ended
QueryDone == MethodDone /\ call.method \notin LocalMethods \cup {"_make_request"}

\* C18: when the RPC call of a Provider query method succeeds with no payload
\* (None), the method fails with the empty-response error and the tool
\* returns a Failure carrying it; no query method returns None
C18_EmptyResponseIsFailure ==
    QueryDone =>
        /\ (call.resps # <<>> /\ LastResp = Returned(NoneV)) =>
              /\ call.inner.kind = "raise"
              /\ \E pre \in FailedTo :
                    call.inner.exc.msg = pre \o "Empty response from Neo RPC"
              /\ call.layer = "tool" =>
                    /\ call.out.kind = "return"
                    /\ IsFailure(call.out.val)
                    /\ call.out.val.error = TextV(call.inner.exc.msg)
        /\ call.inner.kind = "return" => call.inner.val # NoneV

\* C18 witness: GetStorageTool has returned a Failure after the client handed
\* back None
C18_Witness ==
    /\ ToolDone
    /\ call.op = "GetStorageTool"
    /\ call.resps = <<Returned(NoneV)>>
    /\ call.out.kind = "return"
    /\ IsFailure(call.out.val)

\* C19: an address-taking query sends the canonical script hash the input
\* converts to, never the raw input string; for an input the codec rejects
\* it fails and sends nothing
C19_AddressSentAsScriptHash ==
    (MethodEntered /\ call.method \in AddressMethods) =>
        LET converted == _validate_address(call.args.address.s).out
        IN  IF converted.kind = "return"
            THEN /\ call.reqs # <<>>
                 /\ call.reqs[1].params[1] = converted.val
            ELSE /\ call.reqs = <<>>
                 /\ call.pc = "done"
                 /\ call.inner.kind = "raise"
                 /\ call.layer = "tool" => IsFailure(call.out.val)

\* C20: a verbose value outside {0, 1} given to get_block, get_block_header or
\* get_raw_transaction, directly or through their tools, is rejected at the
\* boundary: the invocation fails and no RPC request is issued
C20_VerboseOutsideEnumRejected ==
    (MethodEntered /\ BadVerbose(call.method, call.args)) =>
        /\ call.reqs = <<>>
        /\ call.pc = "done"
        /\ call.inner.kind = "raise"
        /\ call.layer = "tool" => IsFailure(call.out.val)

\* the step constructs a Provider for the caller
Constructs == call'.pc = "done" /\ call'.op \in {"__init__", "get_provider"}

\* C21: a Provider's network and endpoint are fixed at construction, mainnet
\* to the mainnet URL and testnet to the testnet URL, and no query method,
\* validate_address or close changes them; every request of a tool invocation
\* with network n goes to the endpoint of n
C21_EndpointFixedAtConstruction ==
    /\ [](prov # NoProvider =>
             /\ prov.network \in {"mainnet", "testnet"}
             /\ prov.rpc_client.url = Endpoint(prov.network))
    /\ [][(prov # NoProvider /\ ~Constructs) =>
             /\ prov'.network = prov.network
             /\ prov'.rpc_client.url = prov.rpc_client.url]_vars
    /\ []((call.pc \in {"await", "done"} /\ call.provider # NoProvider) =>
             /\ call.provider.rpc_client.url = Endpoint(call.provider.network)
             /\ \A i \in 1..Len(call.reqs) :
                   call.reqs[i].url = Endpoint(call.provider.network)
             /\ (call.layer = "tool" /\ call.given.network # Omitted) =>
                   call.provider.network = call.given.network.text)

\* C21 witness: a query on a mainnet Provider that was closed before has sent
\* its request to the mainnet endpoint
C21_Witness ==
    /\ call.pc = "await"
    /\ call.layer = "provider"
    /\ prov.network = "mainnet"
    /\ ~prov.rpc_client.open
    /\ call.reqs[1].url = MAINNET_RPC

\* what made the query method fail: the codec's message when the input did not
\* parse, the transport's when the last request raised, the empty-response
\* message when it returned None
ValidationCause(method, a) ==
    CASE method \in {"get_contract_state", "get_storage", "invoke_function"} ->
            UInt160_from_string(a.script_hash.s).exc.msg
      [] method \in {"get_raw_transaction", "get_transaction_height",
                     "get_application_log"} ->
            UInt256_from_string(a.txid.s).exc.msg
      [] OTHER -> UInt256_from_string(a.hash_or_index.s).exc.msg

Cause(c) ==
    IF c.resps = <<>> THEN ValidationCause(c.method, c.args)
    ELSE IF c.resps[Len(c.resps)].kind = "raise" THEN c.resps[Len(c.resps)].exc.msg
    ELSE "Empty response from Neo RPC"

\* a query method has failed
QueryFailed == QueryDone /\ call.inner.kind = "raise"

\* C22: a failed query method's message is a fixed context text ('Failed to
\* get <X>: ') followed by the original cause message, and the tool's
\* Failure.error is exactly that string
C22_FailedToGetThenCause ==
    QueryFailed =>
        /\ \E pre \in FailedTo : call.inner.exc.msg = pre \o Cause(call)
        /\ call.layer = "tool" => call.out = Returned(Failure(call.inner.exc.msg))

\* C23: a tool invoked with a network string other than 'mainnet' and
\* 'testnet' returns a Failure whose error is exactly "Network must be
\* 'mainnet' or 'testnet'" and issues no RPC request; so does
\* ValidateAddressTool, even for a valid address, which it does not look at
C23_InvalidNetworkIsFailure ==
    (/\ ToolDone
     /\ Missing(call.op, call.given) = {}
     /\ call.given.network # Omitted
     /\ call.given.network.text \notin {"mainnet", "testnet"}) =>
        /\ call.out = Returned(Failure("Network must be 'mainnet' or 'testnet'"))
        /\ call.reqs = <<>>
        /\ call.codec = <<>>
        /\ call.provider = NoProvider

\* C23 witness: ValidateAddressTool has returned the Failure for a valid
\* standard address and the network 'privnet'
C23_Witness ==
    /\ ToolDone
    /\ call.op = "ValidateAddressTool"
    /\ call.given.network = TextV("privnet")
    /\ call.given.address # Omitted
    /\ is_valid_address(call.given.address.s)
    /\ call.out.kind = "return"
    /\ IsFailure(call.out.val)

\* C24: get_block and get_block_header dispatch on the input string: a
\* string int() accepts is sent as a block index in every request of the
\* invocation and never as a hash; any other string is parsed as a UInt256
\* and sent as that hash, and when the parse fails the call fails with zero
\* requests
C24_DispatchOnInputString ==
    (MethodEntered /\ call.method \in {"get_block", "get_block_header"}) =>
        LET s == call.args.hash_or_index.s
            index == PyInt(s)
            block_hash == UInt256_from_string(s)
        IN  IF index.kind = "return"
            THEN /\ call.reqs # <<>>
                 /\ \A i \in 1..Len(call.reqs) : call.reqs[i].params = <<index.val>>
            ELSE IF block_hash.kind = "return"
            THEN /\ call.reqs # <<>>
                 /\ \A i \in 1..Len(call.reqs) : call.reqs[i].params = <<block_hash.val>>
            ELSE /\ call.reqs = <<>>
                 /\ call.pc = "done"
                 /\ call.inner.kind = "raise"

\* C25: an RPC result that is falsy but not None (0, an empty list, an
\* empty string, an empty mapping) is returned by the Provider and gives a
\* Success ToolResult; a query whose last answer was a result fails only
\* when that result is None
C25_OnlyNoneIsEmpty ==
    (QueryDone /\ call.resps # <<>> /\ LastResp.kind = "return") =>
        /\ call.inner.kind = "raise" <=> LastResp.val = NoneV
        /\ (Falsy(LastResp.val) /\ LastResp.val # NoneV) =>
              /\ call.method \notin {"get_best_block_hash", "get_block_hash"}
                    => call.inner = Returned(LastResp.val)
              /\ call.layer = "tool"
                    => call.out = Returned(Success(FormatOutput(call.op, call.inner.val)))

\* C25 witness: GetRawMempoolTool returned a Success for an empty mempool list
C25_Witness ==
    /\ ToolDone
    /\ call.op = "GetRawMempoolTool"
    /\ call.resps = <<Returned(ListV(<<>>))>>
    /\ call.out = Returned(Success("Mempool transactions: []"))

\* the invocation repeated with verbose = v and everything else, the
\* transport's answers included, the same
WithVerbose(c, v) ==
    IF c.layer = "tool"
    THEN Replay(execute(c.op, [c.given EXCEPT !.verbose = v]), c.resps)
    ELSE LET a == [c.args EXCEPT !.verbose = v]
         IN  Replay(Advance(NewCall("provider", c.method, a, c.method, a, c.provider),
                            NoResp),
                    c.resps)

\* C26: for get_block and get_block_header, and the three tools on top of
\* them, two invocations that differ only in verbose (0 or 1) issue the same
\* requests and end with the same result
C26_VerboseHasNoInfluence ==
    (/\ MethodEntered
     /\ call.method \in {"get_block", "get_block_header"}
     /\ call.args.verbose \in {IntV(0), IntV(1)}) =>
        \A v \in {IntV(0), IntV(1)} :
            LET other == WithVerbose(call, v)
            IN  /\ other.pc = call.pc
                /\ other.reqs = call.reqs
                /\ other.inner = call.inner
                /\ other.out = call.out

\* C26 witness: GetBlockHeaderTool was invoked with verbose = 1 and returned
\* a Success for the header the node sent; its request carries the hash alone
C26_Witness ==
    /\ ToolDone
    /\ call.op = "GetBlockHeaderTool"
    /\ call.given.verbose = IntV(1)
    /\ Len(call.reqs) = 1
    /\ Len(call.reqs[1].params) = 1
    /\ call.out.kind = "return"
    /\ IsSuccess(call.out.val)

C28_MempoolRequestFromFlag ==
    (MethodEntered /\ call.method = "get_raw_mempool") =>
        LET flag == call.args.should_get_unverified
        IN  /\ Len(call.reqs) = 1
            /\ call.reqs[1].url = Endpoint(call.provider.network)
            /\ IF flag.n = 0
               THEN /\ call.reqs[1].via = "client"
                    /\ call.reqs[1].method = "get_raw_mempool"
                    /\ call.reqs[1].params = <<>>
               ELSE /\ call.reqs[1].via = "_do_post"
                    /\ call.reqs[1].method = "getrawmempool"
                    /\ call.reqs[1].params = <<flag>>
            /\ (call.pc = "done" /\ LastResp.kind = "return" /\ LastResp.val # NoneV)
                  => call.inner = Returned(LastResp.val)

\* C28 witness: get_raw_mempool(2) posted 'getrawmempool' with [2] and
\* returned the node's result
C28_Witness ==
    /\ MethodDone
    /\ call.method = "get_raw_mempool"
    /\ call.args.should_get_unverified = IntV(2)
    /\ call.reqs[1].params = <<IntV(2)>>
    /\ call.inner = Returned(ObjV("Result"))

\* C29: when the caller cancels a tool invocation suspended on its RPC round
\* trip, the cancellation propagates out of execute: the invocation ends
\* with the CancelledError, no ToolResult is produced, and no request is
\* issued after the one that was awaited
C29_CancellationPropagates ==
    (/\ call.pc \in {"await", "done"}
     /\ call.layer = "tool"
     /\ \E i \in 1..Len(call.resps) : call.resps[i] = Cancellation) =>
        /\ call.pc = "done"
        /\ LastResp = Cancellation
        /\ Len(call.reqs) = Len(call.resps)
        /\ call.inner = Cancellation
        /\ call.out = Cancellation

\* C29 witness: GetBlockCountTool was cancelled while awaiting its request
C29_Witness ==
    /\ call.pc = "done"
    /\ call.layer = "tool"
    /\ call.op = "GetBlockCountTool"
    /\ call.resps = <<Cancellation>>
    /\ Len(call.reqs) = 1
    /\ call.out.kind = "raise"
    /\ call.out.exc.type = "CancelledError"

\* the values of a mapping, in insertion order
Values(mapping) == [i \in 1..Len(mapping) |-> mapping[i][2]]

\* C30: _make_request builds the positional parameter list from the params
\* mapping alone, its values in insertion order whatever the keys are named
\* (the empty list for the empty mapping), and sends it with the lower-cased
\* method name through _do_post in exactly one request; get_state_root and
\* get_state_height send [index] and [] this way
C30_MakeRequestPositionalParams ==
    /\ (MethodEntered /\ call.method = "_make_request") =>
          /\ Len(call.reqs) = 1
          /\ call.reqs[1].via = "_do_post"
          /\ call.reqs[1].method =
                (IF call.args.method = "GetStateRoot" THEN "getstateroot"
                 ELSE "getstateheight")
          /\ call.reqs[1].params = Values(call.args.params)
    /\ (MethodEntered /\ call.method = "get_state_root") =>
          /\ Len(call.reqs) = 1
          /\ call.reqs[1].via = "_do_post"
          /\ call.reqs[1].method = "getstateroot"
          /\ call.reqs[1].params = <<call.args.index>>
    /\ (MethodEntered /\ call.method = "get_state_height") =>
          /\ Len(call.reqs) = 1
          /\ call.reqs[1].via = "_do_post"
          /\ call.reqs[1].method = "getstateheight"
          /\ call.reqs[1].params = <<>>

\* C30 witness: _make_request('GetStateRoot', {count: 2, index: 1}) has sent
\* 'getstateroot' with [2, 1] and returned the node's result
C30_Witness ==
    /\ MethodDone
    /\ call.method = "_make_request"
    /\ call.args.method = "GetStateRoot"
    /\ call.args.params = <<<<"count", IntV(2)>>, <<"index", IntV(1)>>>>
    /\ call.reqs[1].method = "getstateroot"
    /\ call.reqs[1].params = <<IntV(2), IntV(1)>>
    /\ call.inner.kind = "return"
====
